---------------------------- MODULE Spec2Model ----------------------------
(***************************************************************************)
(* Response callbacks of coredis (coredis/response/callbacks/__init__.py). *)
(*                                                                         *)
(* A reply handed to a callback is a Python value.  Values are records    *)
(* [t, v]: t is the Python type, v the payload.                            *)
(*   NoneType  v = <<>>            int    v = <<n>>                        *)
(*   bool      v = <<0>> | <<1>>   float  v = <<thousandths>>              *)
(*   bytes     v = byte values     str    v = code points                  *)
(*   list / tuple   v = sequence of values                                 *)
(*   set       v = set of values   dict   v = set of <<key, value>>        *)
(*   error     v = message (an exception instance handed over as a reply)  *)
(*   datetime  v = <<microseconds since the epoch>>                        *)
(* The outcome of a call is [k, exc, val]: k = "ret" with the returned     *)
(* value, or k = "raise" with the exception class and its argument.        *)
(***************************************************************************)
EXTENDS Integers, Sequences, FiniteSets, TLC

\* ------------------------------------------------------------------ bounds
MaxArrayLen == 3
MaxVersion == 4
NCalls == 2
MaxEpoch == 1

\* ------------------------------------------------------------------ values
None == [t |-> "NoneType", v |-> <<>>]
PyInt(n) == [t |-> "int", v |-> <<n>>]
PyBool(b) == [t |-> "bool", v |-> IF b THEN <<1>> ELSE <<0>>]
PyFloat(m) == [t |-> "float", v |-> <<m>>]
PyBytes(s) == [t |-> "bytes", v |-> s]
PyStr(s) == [t |-> "str", v |-> s]
PyList(s) == [t |-> "list", v |-> s]
PyTuple(s) == [t |-> "tuple", v |-> s]
PySet(S) == [t |-> "set", v |-> S]
PyDict(P) == [t |-> "dict", v |-> P]
PyError(s) == [t |-> "error", v |-> s]
PyDateTime(m) == [t |-> "datetime", v |-> <<m>>]

True == PyBool(TRUE)
False == PyBool(FALSE)

Ret(x) == [k |-> "ret", exc |-> "", val |-> x]
Raise(e, x) == [k |-> "raise", exc |-> e, val |-> x]

\* ------------------------------------------------------- Python semantics
\* Truth value testing: None, zero of a numeric type and empty containers
\* are false; every other object (an exception instance too) is true.
Truthy(x) ==
    CASE x.t = "NoneType" -> FALSE
      [] x.t \in {"int", "bool", "float"} -> x.v[1] # 0
      [] x.t \in {"bytes", "str", "list", "tuple"} -> Len(x.v) > 0
      [] x.t \in {"set", "dict"} -> x.v # {}
      [] OTHER -> TRUE

\* isinstance(x, int) is true of a bool: bool is a subclass of int.
IsInstanceInt(x) == x.t \in {"int", "bool"}
IsInstanceBool(x) == x.t = "bool"
IsInstanceFloat(x) == x.t = "float"

Hashable(x) == x.t \notin {"list", "set", "dict"}

\* Python's == for the values of the model: 1 == True == 1.0, and the
\* members of a set or the keys of a dict are distinct under it.
NumKey(x) ==
    IF x.t \in {"int", "bool"} THEN [t |-> "num", v |-> <<1000 * x.v[1]>>]
    ELSE IF x.t = "float" THEN [t |-> "num", v |-> x.v]
    ELSE x

RECURSIVE SeqToSet(_)
SeqToSet(s) ==
    IF s = <<>> THEN {}
    ELSE LET front == SeqToSet(SubSeq(s, 1, Len(s) - 1))
             last == s[Len(s)]
         IN IF \E y \in front : NumKey(y) = NumKey(last) THEN front
            ELSE front \cup {last}

RECURSIVE SetToSeq(_)
SetToSeq(S) ==
    IF S = {} THEN <<>>
    ELSE LET x == CHOOSE y \in S : TRUE IN <<x>> \o SetToSeq(S \ {x})

\* iter(x): the elements a for-loop or a constructor draws from x, or
\* "TypeError" when x is not iterable.  Iterating bytes yields ints,
\* iterating str yields one-character strs, iterating a dict its keys.
Iterable(x) == x.t \in {"bytes", "str", "list", "tuple", "set", "dict"}
Iter(x) ==
    CASE x.t \in {"list", "tuple"} -> x.v
      [] x.t = "bytes" -> [i \in 1..Len(x.v) |-> PyInt(x.v[i])]
      [] x.t = "str" -> [i \in 1..Len(x.v) |-> PyStr(<<x.v[i]>>)]
      [] x.t = "set" -> SetToSeq(x.v)
      [] x.t = "dict" -> SetToSeq({p[1] : p \in x.v})
      [] OTHER -> <<>>

IsDigit(c) == c \in 48..57
RECURSIVE DigitsValue(_)
DigitsValue(s) ==
    IF s = <<>> THEN 0
    ELSE 10 * DigitsValue(SubSeq(s, 1, Len(s) - 1)) + (s[Len(s)] - 48)

\* int("...") / int(b"..."): decimal digits only over the model's alphabet.
IsIntLiteral(s) == Len(s) > 0 /\ \A i \in 1..Len(s) : IsDigit(s[i])

\* float("...") / float(b"..."): digits with at most one ".", one digit at
\* least.  The value is in thousandths.
DotAt(s) == {i \in 1..Len(s) : s[i] = 46}
IsFloatLiteral(s) ==
    /\ \A i \in 1..Len(s) : IsDigit(s[i]) \/ s[i] = 46
    /\ Cardinality(DotAt(s)) <= 1
    /\ \E i \in 1..Len(s) : IsDigit(s[i])
Pow10(n) == IF n = 0 THEN 1 ELSE IF n = 1 THEN 10 ELSE IF n = 2 THEN 100 ELSE 1000
FloatLiteralValue(s) ==
    IF DotAt(s) = {} THEN 1000 * DigitsValue(s)
    ELSE LET d == CHOOSE i \in DotAt(s) : TRUE
             whole == SubSeq(s, 1, d - 1)
             frac == SubSeq(s, d + 1, Len(s))
         IN 1000 * DigitsValue(whole)
              + (DigitsValue(frac) * 1000) \div Pow10(Len(frac))

\* float(x)
float(x) ==
    CASE x.t = "float" -> Ret(x)
      [] x.t \in {"int", "bool"} -> Ret(PyFloat(1000 * x.v[1]))
      [] x.t \in {"bytes", "str"} ->
            IF IsFloatLiteral(x.v) THEN Ret(PyFloat(FloatLiteralValue(x.v)))
            ELSE Raise("ValueError", None)
      [] OTHER -> Raise("TypeError", None)

\* int(x): truncation of a float, decimal parse of text.
int(x) ==
    CASE x.t = "int" -> Ret(x)
      [] x.t = "bool" -> Ret(PyInt(x.v[1]))
      [] x.t = "float" -> Ret(PyInt(x.v[1] \div 1000))
      [] x.t \in {"bytes", "str"} ->
            IF IsIntLiteral(x.v) THEN Ret(PyInt(DigitsValue(x.v)))
            ELSE Raise("ValueError", None)
      [] OTHER -> Raise("TypeError", None)

\* bool(x)
bool(x) == PyBool(Truthy(x))

\* tuple(x) and list(x)
tuple(x) == IF Iterable(x) THEN Ret(PyTuple(Iter(x))) ELSE Raise("TypeError", None)
list(x) == IF Iterable(x) THEN Ret(PyList(Iter(x))) ELSE Raise("TypeError", None)

\* set(x): the distinct elements of an iterable of hashable values.
set(x) ==
    IF ~Iterable(x) THEN Raise("TypeError", None)
    ELSE IF \E i \in 1..Len(Iter(x)) : ~Hashable(Iter(x)[i])
         THEN Raise("TypeError", None)
         ELSE Ret(PySet(SeqToSet(Iter(x))))

\* dict(x) of a non-dict: the elements of x are taken in order; each must
\* itself be an iterable (TypeError) of exactly two elements (ValueError),
\* the key, which must be hashable (TypeError), and the value.  A key equal
\* to an earlier one keeps the earlier key object and takes the new value.
DictInsert(acc, key, value) ==
    IF \E p \in acc : NumKey(p[1]) = NumKey(key)
    THEN {IF NumKey(p[1]) = NumKey(key) THEN <<p[1], value>> ELSE p : p \in acc}
    ELSE acc \cup {<<key, value>>}
RECURSIVE DictUpdate(_, _)
DictUpdate(acc, s) ==
    IF s = <<>> THEN Ret(PyDict(acc))
    ELSE LET e == Head(s) IN
         IF ~Iterable(e) THEN Raise("TypeError", None)
         ELSE IF Len(Iter(e)) # 2 THEN Raise("ValueError", None)
         ELSE IF ~Hashable(Iter(e)[1]) THEN Raise("TypeError", None)
         ELSE DictUpdate(DictInsert(acc, Iter(e)[1], Iter(e)[2]), Tail(s))
dict(x) ==
    IF x.t = "dict" THEN Ret(x)
    ELSE IF ~Iterable(x) THEN Raise("TypeError", None)
    ELSE DictUpdate({}, Iter(x))

\* ------------------------------------------------------------ text helper
OK == <<79, 75>>
ERR == <<69, 82, 82>>

\* coredis.utils.nativestr: the text of a reply.  A str is returned as it
\* is, bytes are decoded to the str of the same characters, and a value
\* that is no text is handed back unchanged.
nativestr(x) ==
    CASE x.t = "str" -> x
      [] x.t = "bytes" -> PyStr(x.v)
      [] OTHER -> x

\* A transform_function a caller may hand to DictCallback: the pairs
\* (r[0], r[1]), (r[2], r[3]), ... of a flat list as a dict.
RECURSIVE FlatPairs(_)
FlatPairs(s) ==
    IF Len(s) < 2 THEN <<>>
    ELSE <<PyTuple(<<s[1], s[2]>>)>> \o FlatPairs(SubSeq(s, 3, Len(s)))
flat_pairs_to_dict(response) ==
    IF ~Iterable(response) THEN Raise("TypeError", None)
    ELSE DictUpdate({}, FlatPairs(Iter(response)))

\* -------------------------------------------------------------- callbacks
\* A callback instance: its class and the attributes __init__ sets
\* ("None" where the class has no such attribute or it was not given).
Callback(cls, roe, fn) ==
    [cls |-> cls, raise_on_error |-> roe, transform_function |-> fn]

SimpleClasses ==
    {"SimpleStringCallback", "FloatCallback", "BoolCallback",
     "SimpleStringOrIntCallback", "TupleCallback", "ListCallback",
     "DictCallback", "SetCallback", "BoolsCallback",
     "OptionalPrimitiveCallback", "OptionalFloatCallback",
     "OptionalIntCallback", "OptionalSetCallback", "OptionalTupleCallback"}
ParametrizedClasses == {"DateTimeCallback"}

ExceptionTypes == {"ResponseError", "AuthenticationError"}
TransformFunctions == {"flat_pairs_to_dict"}

Callbacks ==
    {Callback(c, "None", "None") : c \in SimpleClasses \cup ParametrizedClasses}
    \cup {Callback("SimpleStringCallback", e, "None") : e \in ExceptionTypes}
    \cup {Callback("DictCallback", "None", f) : f \in TransformFunctions}

\* SimpleStringCallback.transform raising with the computed success instead
\* of the raw reply.
SimpleStringCallback_transform_RaiseSuccess(slf, response) ==
    LET success == IF Truthy(response)
                   THEN PyBool(nativestr(response) = PyStr(OK))
                   ELSE response
    IN IF ~Truthy(success) /\ slf.raise_on_error # "None"
       THEN Raise(slf.raise_on_error, success)
       ELSE Ret(success)

\* SimpleStringCallback.transform
SimpleStringCallback_transform(slf, response) ==
    LET success == IF Truthy(response)
                   THEN PyBool(nativestr(response) = PyStr(OK))
                   ELSE response
    IN IF ~Truthy(success) /\ slf.raise_on_error # "None"
       THEN Raise(slf.raise_on_error, response)
       ELSE Ret(success)

\* FloatCallback.transform
FloatCallback_transform(response) ==
    IF IsInstanceFloat(response) THEN Ret(response) ELSE float(response)

\* BoolCallback.transform without the coercion.
BoolCallback_transform_NoCoercion(response) == Ret(response)

\* BoolCallback.transform
BoolCallback_transform(response) ==
    IF IsInstanceBool(response) THEN Ret(response) ELSE Ret(bool(response))

\* SimpleStringOrIntCallback.transform testing type(response) is int, which
\* a bool is not.
SimpleStringOrIntCallback_transform_ExactInt(response) ==
    IF response.t = "int" THEN Ret(response)
    ELSE SimpleStringCallback_transform(
             Callback("SimpleStringCallback", "None", "None"), response)

\* SimpleStringOrIntCallback.transform: SimpleStringCallback()(response) is
\* a call of a fresh instance with the default version, 2.
SimpleStringOrIntCallback_transform(response) ==
    IF IsInstanceInt(response) \/ IsInstanceBool(response) THEN Ret(response)
    ELSE SimpleStringCallback_transform(
             Callback("SimpleStringCallback", "None", "None"), response)

\* TupleCallback.transform
TupleCallback_transform(response) == tuple(response)

\* ListCallback.transform
ListCallback_transform(response) ==
    IF response.t = "list" THEN Ret(response) ELSE list(response)

\* The microseconds of a number of seconds: an int n is n * 10^6, a float
\* (thousandths) t * 10^3.
Micros(x) == IF x.t = "float" THEN 1000 * x.v[1] ELSE 1000000 * x.v[1]

\* DateTimeCallback.transform dividing whenever a unit is given.
DateTimeCallback_transform_AnyUnit(response, unit) ==
    IF response.t \notin {"int", "bool", "float"} THEN Raise("TypeError", None)
    ELSE LET ts == IF unit # "" THEN Micros(response) \div 1000
                   ELSE Micros(response)
         IN Ret(PyDateTime(ts))

\* DateTimeCallback.transform: unit is kwargs.get("unit"), "" when absent.
\* ts / 1000.0 and datetime.fromtimestamp(ts) need a number; ts is kept in
\* microseconds, of which Micros(response) has a whole multiple of 1000.
DateTimeCallback_transform(response, unit) ==
    IF response.t \notin {"int", "bool", "float"} THEN Raise("TypeError", None)
    ELSE LET ts == IF unit = "milliseconds" THEN Micros(response) \div 1000
                   ELSE Micros(response)
         IN Ret(PyDateTime(ts))

\* DictCallback.transform
ApplyTransformFunction(fn, response) ==
    CASE fn = "flat_pairs_to_dict" -> flat_pairs_to_dict(response)
      [] OTHER -> Raise("TypeError", None)
DictCallback_transform(slf, response) ==
    IF slf.transform_function = "None"
    THEN (IF response.t = "dict" THEN Ret(response) ELSE dict(response))
    ELSE ApplyTransformFunction(slf.transform_function, response)

\* SetCallback.transform with the falsy reply handed back (the body of
\* OptionalSetCallback.transform).
SetCallback_transform_NoDefault(response) ==
    IF response.t = "set" THEN Ret(response)
    ELSE IF Truthy(response) THEN set(response) ELSE Ret(response)

\* SetCallback.transform
SetCallback_transform(response) ==
    IF response.t = "set" THEN Ret(response)
    ELSE IF Truthy(response) THEN set(response) ELSE Ret(PySet({}))

\* BoolsCallback.transform: BoolCallback()(r) for every r of the reply.
BoolsCallback_transform(response) ==
    IF ~Iterable(response) THEN Raise("TypeError", None)
    ELSE Ret(PyTuple([i \in 1..Len(Iter(response)) |->
                        BoolCallback_transform(Iter(response)[i]).val]))

\* OptionalPrimitiveCallback.transform
OptionalPrimitiveCallback_transform(response) == Ret(response)

\* OptionalFloatCallback.transform coercing with int().
OptionalFloatCallback_transform_IntParse(response) ==
    IF IsInstanceFloat(response) THEN Ret(response)
    ELSE IF Truthy(response) THEN int(response) ELSE Ret(response)

\* OptionalFloatCallback.transform
OptionalFloatCallback_transform(response) ==
    IF IsInstanceFloat(response) THEN Ret(response)
    ELSE IF Truthy(response) THEN float(response) ELSE Ret(response)

\* OptionalIntCallback.transform
OptionalIntCallback_transform(response) ==
    IF IsInstanceInt(response) THEN Ret(response)
    ELSE IF Truthy(response) THEN int(response) ELSE Ret(response)

\* OptionalSetCallback.transform
OptionalSetCallback_transform(response) ==
    IF response.t = "set" THEN Ret(response)
    ELSE IF Truthy(response) THEN set(response) ELSE Ret(response)

\* OptionalTupleCallback.transform
OptionalTupleCallback_transform(response) ==
    IF Truthy(response) THEN tuple(response) ELSE Ret(response)

\* self.transform(response, **kwargs): the transform of the instance's class.
transform(slf, response, unit) ==
    CASE slf.cls = "SimpleStringCallback" -> SimpleStringCallback_transform(slf, response)
      [] slf.cls = "FloatCallback" -> FloatCallback_transform(response)
      [] slf.cls = "BoolCallback" -> BoolCallback_transform(response)
      [] slf.cls = "SimpleStringOrIntCallback" -> SimpleStringOrIntCallback_transform(response)
      [] slf.cls = "TupleCallback" -> TupleCallback_transform(response)
      [] slf.cls = "ListCallback" -> ListCallback_transform(response)
      [] slf.cls = "DateTimeCallback" -> DateTimeCallback_transform(response, unit)
      [] slf.cls = "DictCallback" -> DictCallback_transform(slf, response)
      [] slf.cls = "SetCallback" -> SetCallback_transform(response)
      [] slf.cls = "BoolsCallback" -> BoolsCallback_transform(response)
      [] slf.cls = "OptionalPrimitiveCallback" -> OptionalPrimitiveCallback_transform(response)
      [] slf.cls = "OptionalFloatCallback" -> OptionalFloatCallback_transform(response)
      [] slf.cls = "OptionalIntCallback" -> OptionalIntCallback_transform(response)
      [] slf.cls = "OptionalSetCallback" -> OptionalSetCallback_transform(response)
      [] slf.cls = "OptionalTupleCallback" -> OptionalTupleCallback_transform(response)

\* SimpleCallback.transform_3 / ParametrizedCallback.transform_3: no class of
\* the module overrides the default, which delegates to transform.
transform_3(slf, response, unit) == transform(slf, response, unit)

\* __call__ branching on version >= 3.
Dispatch_AtLeast3(version) == IF version >= 3 THEN "transform_3" ELSE "transform"

\* The branch of __call__: the method the call runs for a version.
Dispatch(version) == IF version = 3 THEN "transform_3" ELSE "transform"

\* A transform that drops its configuration once it was used.
SelfAfterTransform_Reset(slf, response) ==
    [slf EXCEPT !.raise_on_error = "None", !.transform_function = "None"]

\* The attributes of the instance after a transform ran: no transform
\* assigns to self, raise_on_error and transform_function are only read.
SelfAfterTransform(slf, response) == slf

\* callback(response, version, **kwargs) as one step: the outcome of a call
\* that runs alone.
call(slf, response, version, unit) ==
    IF Dispatch(version) = "transform_3" THEN transform_3(slf, response, unit)
    ELSE transform(slf, response, unit)

\* ---------------------------------------------------------------- replies
ScalarReplies ==
    {None, PyInt(0), PyInt(1), PyInt(5), True, False,
     PyFloat(0), PyFloat(1500),
     PyBytes(<<>>), PyBytes(OK), PyBytes(<<111, 107>>), PyBytes(<<53>>),
     PyBytes(<<49, 46, 53>>), PyBytes(<<97, 98>>),
     PyStr(OK), PyStr(<<>>), PyStr(<<80, 79, 78, 71>>),
     PyError(ERR)}

\* Timestamps: epoch seconds and the same instants in milliseconds.
EpochSeconds == (0 - 1)..MaxEpoch
TimestampReplies == UNION {{PyInt(sec), PyInt(1000 * sec)} : sec \in EpochSeconds}

\* Members of arrays and sets, keys and values of maps.
Elems == {PyBytes(<<97>>), PyBytes(<<98, 99>>), PyInt(1)}
Keys == {PyBytes(<<97>>), PyBytes(<<98, 99>>)}
Vals == {PyBytes(<<97>>), PyInt(1)}

SeqsUpTo(S, n) == UNION {[1..m -> S] : m \in 0..n}
Arrays == {PyList(s) : s \in SeqsUpTo(Elems, MaxArrayLen)}
NativeSets == {PySet(S) : S \in SUBSET Elems}

\* The logical key/value pairs of a map reply: a set of <<key, value>> with
\* unique keys, in every order the wire may list them.
Mappings == UNION {[K -> Vals] : K \in SUBSET Keys}
PairsOf(m) == {<<k2, m[k2]>> : k2 \in DOMAIN m}
Orders(P) == {s \in [1..Cardinality(P) -> P] : \A i, j \in DOMAIN s : i # j => s[i] # s[j]}
RECURSIVE Flatten(_)
Flatten(s) == IF s = <<>> THEN <<>> ELSE <<Head(s)[1], Head(s)[2]>> \o Flatten(Tail(s))
NativeMaps == {PyDict(PairsOf(m)) : m \in Mappings}
FlatArrays == {PyList(Flatten(s)) : s \in UNION {Orders(PairsOf(m)) : m \in Mappings}}
PairArrays ==
    {PyList([i \in DOMAIN s |-> PyList(<<s[i][1], s[i][2]>>)]) :
        s \in UNION {Orders(PairsOf(m)) : m \in Mappings}}

Replies == ScalarReplies \cup Arrays \cup NativeSets \cup NativeMaps
             \cup FlatArrays \cup PairArrays \cup TimestampReplies

\* The replies and versions of the calls that run side by side.
ConcReplies ==
    {None, PyInt(5), PyBytes(OK),
     PyList(<<PyBytes(<<97>>), PyBytes(<<98, 99>>)>>)}
Versions == 1..MaxVersion
ConcVersions == {2, 3}

\* version: int = 2 in the signature of __call__
DefaultVersion == 2

\* The named parameters of a call: unit for a ParametrizedCallback ("" when
\* the caller gives none), nothing for a SimpleCallback.
Units(slf) ==
    IF slf.cls \in ParametrizedClasses THEN {"", "seconds", "milliseconds", "ms"}
    ELSE {""}

\* ----------------------------------------------------------------- tokens
\* coredis/tokens.py: the members of the two enumerations in the order the
\* class bodies define them, <<NAME, value>> with the bytes of the literal.
PureTokenTable ==
    <<
      <<"RESET", <<82, 69, 83, 69, 84>>>>,
      <<"SCHEDULE", <<83, 67, 72, 69, 68, 85, 76, 69>>>>,
      <<"BIT", <<66, 73, 84>>>>,
      <<"BYTE", <<66, 89, 84, 69>>>>,
      <<"FAIL", <<70, 65, 73, 76>>>>,
      <<"SAT", <<83, 65, 84>>>>,
      <<"WRAP", <<87, 82, 65, 80>>>>,
      <<"AND", <<65, 78, 68>>>>,
      <<"NOT", <<78, 79, 84>>>>,
      <<"OR", <<79, 82>>>>,
      <<"XOR", <<88, 79, 82>>>>,
      <<"LEFT", <<76, 69, 70, 84>>>>,
      <<"RIGHT", <<82, 73, 71, 72, 84>>>>,
      <<"MAX", <<77, 65, 88>>>>,
      <<"MIN", <<77, 73, 78>>>>,
      <<"NO", <<78, 79>>>>,
      <<"YES", <<89, 69, 83>>>>,
      <<"MASTER", <<77, 65, 83, 84, 69, 82>>>>,
      <<"NORMAL", <<78, 79, 82, 77, 65, 76>>>>,
      <<"PUBSUB", <<80, 85, 66, 83, 85, 66>>>>,
      <<"REPLICA", <<82, 69, 80, 76, 73, 67, 65>>>>,
      <<"SLAVE", <<83, 76, 65, 86, 69>>>>,
      <<"OFF", <<79, 70, 70>>>>,
      <<"ON", <<79, 78>>>>,
      <<"ALL", <<65, 76, 76>>>>,
      <<"WRITE", <<87, 82, 73, 84, 69>>>>,
      <<"SKIP", <<83, 75, 73, 80>>>>,
      <<"BCAST", <<66, 67, 65, 83, 84>>>>,
      <<"NOLOOP", <<78, 79, 76, 79, 79, 80>>>>,
      <<"OPTIN", <<79, 80, 84, 73, 78>>>>,
      <<"OPTOUT", <<79, 80, 84, 79, 85, 84>>>>,
      <<"ERROR", <<69, 82, 82, 79, 82>>>>,
      <<"TIMEOUT", <<84, 73, 77, 69, 79, 85, 84>>>>,
      <<"FORCE", <<70, 79, 82, 67, 69>>>>,
      <<"TAKEOVER", <<84, 65, 75, 69, 79, 86, 69, 82>>>>,
      <<"HARD", <<72, 65, 82, 68>>>>,
      <<"SOFT", <<83, 79, 70, 84>>>>,
      <<"STABLE", <<83, 84, 65, 66, 76, 69>>>>,
      <<"REPLACE", <<82, 69, 80, 76, 65, 67, 69>>>>,
      <<"GT", <<71, 84>>>>,
      <<"LT", <<76, 84>>>>,
      <<"NX", <<78, 88>>>>,
      <<"XX", <<88, 88>>>>,
      <<"ABORT", <<65, 66, 79, 82, 84>>>>,
      <<"ASYNC", <<65, 83, 89, 78, 67>>>>,
      <<"SYNC", <<83, 89, 78, 67>>>>,
      <<"WITHCODE", <<87, 73, 84, 72, 67, 79, 68, 69>>>>,
      <<"APPEND", <<65, 80, 80, 69, 78, 68>>>>,
      <<"FLUSH", <<70, 76, 85, 83, 72>>>>,
      <<"CHANGE", <<67, 72>>>>,
      <<"FT", <<70, 84>>>>,
      <<"KM", <<75, 77>>>>,
      <<"M", <<77>>>>,
      <<"MI", <<77, 73>>>>,
      <<"ANY", <<65, 78, 89>>>>,
      <<"ASC", <<65, 83, 67>>>>,
      <<"DESC", <<68, 69, 83, 67>>>>,
      <<"WITHCOORD", <<87, 73, 84, 72, 67, 79, 79, 82, 68>>>>,
      <<"WITHDIST", <<87, 73, 84, 72, 68, 73, 83, 84>>>>,
      <<"WITHHASH", <<87, 73, 84, 72, 72, 65, 83, 72>>>>,
      <<"STOREDIST", <<83, 84, 79, 82, 69, 68, 73, 83, 84>>>>,
      <<"PERSIST", <<80, 69, 82, 83, 73, 83, 84>>>>,
      <<"WITHVALUES", <<87, 73, 84, 72, 86, 65, 76, 85, 69, 83>>>>,
      <<"IDX", <<73, 68, 88>>>>,
      <<"LEN", <<76, 69, 78>>>>,
      <<"WITHMATCHLEN", <<87, 73, 84, 72, 77, 65, 84, 67, 72, 76, 69, 78>>>>,
      <<"AFTER", <<65, 70, 84, 69, 82>>>>,
      <<"BEFORE", <<66, 69, 70, 79, 82, 69>>>>,
      <<"COPY", <<67, 79, 80, 89>>>>,
      <<"EMPTY_STRING", <<>>>>,
      <<"ABSTTL", <<65, 66, 83, 84, 84, 76>>>>,
      <<"GET", <<71, 69, 84>>>>,
      <<"KEEPTTL", <<75, 69, 69, 80, 84, 84, 76>>>>,
      <<"NOSAVE", <<78, 79, 83, 65, 86, 69>>>>,
      <<"NOW", <<78, 79, 87>>>>,
      <<"SAVE", <<83, 65, 86, 69>>>>,
      <<"SORTING", <<65, 76, 80, 72, 65>>>>,
      <<"APPROXIMATELY", <<126>>>>,
      <<"AUTO_ID", <<42>>>>,
      <<"EQUAL", <<61>>>>,
      <<"MAXLEN", <<77, 65, 88, 76, 69, 78>>>>,
      <<"MINID", <<77, 73, 78, 73, 68>>>>,
      <<"NOMKSTREAM", <<78, 79, 77, 75, 83, 84, 82, 69, 65, 77>>>>,
      <<"JUSTID", <<74, 85, 83, 84, 73, 68>>>>,
      <<"MKSTREAM", <<77, 75, 83, 84, 82, 69, 65, 77>>>>,
      <<"NEW_ID", <<36>>>>,
      <<"FULL", <<70, 85, 76, 76>>>>,
      <<"NOACK", <<78, 79, 65, 67, 75>>>>,
      <<"INCREMENT", <<73, 78, 67, 82>>>>,
      <<"WITHSCORES", <<87, 73, 84, 72, 83, 67, 79, 82, 69, 83>>>>,
      <<"SUM", <<83, 85, 77>>>>,
      <<"BYLEX", <<66, 89, 76, 69, 88>>>>,
      <<"BYSCORE", <<66, 89, 83, 67, 79, 82, 69>>>>,
      <<"REV", <<82, 69, 86>>>>,
      <<"WITHSCORE", <<87, 73, 84, 72, 83, 67, 79, 82, 69>>>>,
      <<"NONSCALING", <<78, 79, 78, 83, 67, 65, 76, 73, 78, 71>>>>,
      <<"ITEMS", <<73, 84, 69, 77, 83>>>>,
      <<"NOCREATE", <<78, 79, 67, 82, 69, 65, 84, 69>>>>,
      <<"CAPACITY", <<67, 65, 80, 65, 67, 73, 84, 89>>>>,
      <<"EXPANSION", <<69, 88, 80, 65, 78, 83, 73, 79, 78>>>>,
      <<"FILTERS", <<70, 73, 76, 84, 69, 82, 83>>>>,
      <<"SIZE", <<83, 73, 90, 69>>>>,
      <<"WEIGHTS", <<87, 69, 73, 71, 72, 84, 83>>>>,
      <<"WITHCOUNT", <<87, 73, 84, 72, 67, 79, 85, 78, 84>>>>,
      <<"COMPRESSION", <<67, 79, 77, 80, 82, 69, 83, 83, 73, 79, 78>>>>,
      <<"OVERRIDE", <<79, 86, 69, 82, 82, 73, 68, 69>>>>,
      <<"BLOCK", <<66, 76, 79, 67, 75>>>>,
      <<"COMPRESSED", <<67, 79, 77, 80, 82, 69, 83, 83, 69, 68>>>>,
      <<"FIRST", <<70, 73, 82, 83, 84>>>>,
      <<"LAST", <<76, 65, 83, 84>>>>,
      <<"UNCOMPRESSED", <<85, 78, 67, 79, 77, 80, 82, 69, 83, 83, 69, 68>>>>,
      <<"AVG", <<65, 86, 71>>>>,
      <<"COUNT", <<67, 79, 85, 78, 84>>>>,
      <<"RANGE", <<82, 65, 78, 71, 69>>>>,
      <<"STD_P", <<83, 84, 68, 46, 80>>>>,
      <<"STD_S", <<83, 84, 68, 46, 83>>>>,
      <<"TWA", <<84, 87, 65>>>>,
      <<"VAR_P", <<86, 65, 82, 46, 80>>>>,
      <<"VAR_S", <<86, 65, 82, 46, 83>>>>,
      <<"BUCKETTIMESTAMP", <<66, 85, 67, 75, 69, 84, 84, 73, 77, 69, 83, 84, 65, 77, 80>>>>,
      <<"EMPTY", <<69, 77, 80, 84, 89>>>>,
      <<"FILTER_BY_VALUE", <<70, 73, 76, 84, 69, 82, 95, 66, 89, 95, 86, 65, 76, 85, 69>>>>,
      <<"GROUPBY", <<71, 82, 79, 85, 80, 66, 89>>>>,
      <<"SELECTED_LABELS", <<83, 69, 76, 69, 67, 84, 69, 68, 95, 76, 65, 66, 69, 76, 83>>>>,
      <<"WITHLABELS", <<87, 73, 84, 72, 76, 65, 66, 69, 76, 83>>>>
    >>

PrefixTokenTable ==
    <<
      <<"GET", <<71, 69, 84>>>>,
      <<"INCRBY", <<73, 78, 67, 82, 66, 89>>>>,
      <<"OVERFLOW", <<79, 86, 69, 82, 70, 76, 79, 87>>>>,
      <<"SET", <<83, 69, 84>>>>,
      <<"COUNT", <<67, 79, 85, 78, 84>>>>,
      <<"ADDR", <<65, 68, 68, 82>>>>,
      <<"IDENTIFIER", <<73, 68>>>>,
      <<"LADDR", <<76, 65, 68, 68, 82>>>>,
      <<"SKIPME", <<83, 75, 73, 80, 77, 69>>>>,
      <<"TYPE", <<84, 89, 80, 69>>>>,
      <<"USER", <<85, 83, 69, 82>>>>,
      <<"LIB_NAME", <<76, 73, 66, 45, 78, 65, 77, 69>>>>,
      <<"LIB_VER", <<76, 73, 66, 45, 86, 69, 82>>>>,
      <<"PREFIX", <<80, 82, 69, 70, 73, 88>>>>,
      <<"REDIRECT", <<82, 69, 68, 73, 82, 69, 67, 84>>>>,
      <<"IMPORTING", <<73, 77, 80, 79, 82, 84, 73, 78, 71>>>>,
      <<"MIGRATING", <<77, 73, 71, 82, 65, 84, 73, 78, 71>>>>,
      <<"NODE", <<78, 79, 68, 69>>>>,
      <<"ACLCAT", <<65, 67, 76, 67, 65, 84>>>>,
      <<"FILTERBY", <<70, 73, 76, 84, 69, 82, 66, 89>>>>,
      <<"MODULE", <<77, 79, 68, 85, 76, 69>>>>,
      <<"PATTERN", <<80, 65, 84, 84, 69, 82, 78>>>>,
      <<"DB", <<68, 66>>>>,
      <<"TIMEOUT", <<84, 73, 77, 69, 79, 85, 84>>>>,
      <<"TO", <<84, 79>>>>,
      <<"LIBRARYNAME", <<76, 73, 66, 82, 65, 82, 89, 78, 65, 77, 69>>>>,
      <<"STORE", <<83, 84, 79, 82, 69>>>>,
      <<"STOREDIST", <<83, 84, 79, 82, 69, 68, 73, 83, 84>>>>,
      <<"BYBOX", <<66, 89, 66, 79, 88>>>>,
      <<"BYRADIUS", <<66, 89, 82, 65, 68, 73, 85, 83>>>>,
      <<"FROMLONLAT", <<70, 82, 79, 77, 76, 79, 78, 76, 65, 84>>>>,
      <<"FROMMEMBER", <<70, 82, 79, 77, 77, 69, 77, 66, 69, 82>>>>,
      <<"EX", <<69, 88>>>>,
      <<"EXAT", <<69, 88, 65, 84>>>>,
      <<"PX", <<80, 88>>>>,
      <<"PXAT", <<80, 88, 65, 84>>>>,
      <<"AUTH", <<65, 85, 84, 72>>>>,
      <<"SETNAME", <<83, 69, 84, 78, 65, 77, 69>>>>,
      <<"MATCH", <<77, 65, 84, 67, 72>>>>,
      <<"MINMATCHLEN", <<77, 73, 78, 77, 65, 84, 67, 72, 76, 69, 78>>>>,
      <<"VERSION", <<86, 69, 82, 83, 73, 79, 78>>>>,
      <<"MAXLEN", <<77, 65, 88, 76, 69, 78>>>>,
      <<"RANK", <<82, 65, 78, 75>>>>,
      <<"SAMPLES", <<83, 65, 77, 80, 76, 69, 83>>>>,
      <<"AUTH2", <<65, 85, 84, 72, 50>>>>,
      <<"KEYS", <<75, 69, 89, 83>>>>,
      <<"ARGS", <<65, 82, 71, 83>>>>,
      <<"CONFIG", <<67, 79, 78, 70, 73, 71>>>>,
      <<"FREQ", <<70, 82, 69, 81>>>>,
      <<"IDLETIME", <<73, 68, 76, 69, 84, 73, 77, 69>>>>,
      <<"LIMIT", <<76, 73, 77, 73, 84>>>>,
      <<"BY", <<66, 89>>>>,
      <<"IDLE", <<73, 68, 76, 69>>>>,
      <<"LASTID", <<76, 65, 83, 84, 73, 68>>>>,
      <<"RETRYCOUNT", <<82, 69, 84, 82, 89, 67, 79, 85, 78, 84>>>>,
      <<"TIME", <<84, 73, 77, 69>>>>,
      <<"ENTRIESREAD", <<69, 78, 84, 82, 73, 69, 83, 82, 69, 65, 68>>>>,
      <<"BLOCK", <<66, 76, 79, 67, 75>>>>,
      <<"STREAMS", <<83, 84, 82, 69, 65, 77, 83>>>>,
      <<"GROUP", <<71, 82, 79, 85, 80>>>>,
      <<"ENTRIESADDED", <<69, 78, 84, 82, 73, 69, 83, 65, 68, 68, 69, 68>>>>,
      <<"MAXDELETEDID", <<77, 65, 88, 68, 69, 76, 69, 84, 69, 68, 73, 68>>>>,
      <<"AGGREGATE", <<65, 71, 71, 82, 69, 71, 65, 84, 69>>>>,
      <<"WEIGHTS", <<87, 69, 73, 71, 72, 84, 83>>>>,
      <<"INDENT", <<73, 78, 68, 69, 78, 84>>>>,
      <<"NEWLINE", <<78, 69, 87, 76, 73, 78, 69>>>>,
      <<"SPACE", <<83, 80, 65, 67, 69>>>>,
      <<"EXPANSION", <<69, 88, 80, 65, 78, 83, 73, 79, 78>>>>,
      <<"CAPACITY", <<67, 65, 80, 65, 67, 73, 84, 89>>>>,
      <<"ERROR", <<69, 82, 82, 79, 82>>>>,
      <<"BUCKETSIZE", <<66, 85, 67, 75, 69, 84, 83, 73, 90, 69>>>>,
      <<"MAXITERATIONS", <<77, 65, 88, 73, 84, 69, 82, 65, 84, 73, 79, 78, 83>>>>,
      <<"COMPRESSION", <<67, 79, 77, 80, 82, 69, 83, 83, 73, 79, 78>>>>,
      <<"CHUNK_SIZE", <<67, 72, 85, 78, 75, 95, 83, 73, 90, 69>>>>,
      <<"DUPLICATE_POLICY", <<68, 85, 80, 76, 73, 67, 65, 84, 69, 95, 80, 79, 76, 73, 67, 89>>>>,
      <<"ENCODING", <<69, 78, 67, 79, 68, 73, 78, 71>>>>,
      <<"LABELS", <<76, 65, 66, 69, 76, 83>>>>,
      <<"RETENTION", <<82, 69, 84, 69, 78, 84, 73, 79, 78>>>>,
      <<"ON_DUPLICATE", <<79, 78, 95, 68, 85, 80, 76, 73, 67, 65, 84, 69>>>>,
      <<"TIMESTAMP", <<84, 73, 77, 69, 83, 84, 65, 77, 80>>>>,
      <<"AGGREGATION", <<65, 71, 71, 82, 69, 71, 65, 84, 73, 79, 78>>>>,
      <<"ALIGN", <<65, 76, 73, 71, 78>>>>,
      <<"FILTER_BY_TS", <<70, 73, 76, 84, 69, 82, 95, 66, 89, 95, 84, 83>>>>,
      <<"FILTER", <<70, 73, 76, 84, 69, 82>>>>
    >>

\* A token: a member of an enumeration, a bytes value with a name.
Token(cls, name, value) == [t |-> "token", cls |-> cls, name |-> name, v |-> value]

\* Creation of an Enum class: a name whose value equals the value of an
\* earlier name is an alias of that member, not a member of its own.
FirstWithValue(table, value) == CHOOSE i \in 1..Len(table) :
    /\ table[i][2] = value
    /\ \A j \in 1..(i - 1) : table[j][2] # value
EnumLookup(cls, table, i) ==
    LET k == FirstWithValue(table, table[i][2]) IN Token(cls, table[k][1], table[k][2])
EnumNames(table) == {table[i][1] : i \in 1..Len(table)}
EnumMembers(cls, table) == {EnumLookup(cls, table, i) : i \in 1..Len(table)}
\* cls.NAME
EnumAttr(cls, table, name) ==
    EnumLookup(cls, table, CHOOSE i \in 1..Len(table) : table[i][1] = name)

\* The table with the value of one name replaced.
TableWith(table, name, value) ==
    [i \in 1..Len(table) |-> IF table[i][1] = name THEN <<name, value>> ELSE table[i]]

\* PureToken with MAXLEN = b"maxlen", a lower-case literal.
PureToken_LowerCaseMaxlen ==
    [cls |-> "PureToken",
     table |-> TableWith(PureTokenTable, "MAXLEN", <<109, 97, 120, 108, 101, 110>>)]

\* PureToken with XX = b"NX", the value NX has already.
PureToken_DuplicateValue ==
    [cls |-> "PureToken",
     table |-> TableWith(PureTokenTable, "XX", <<78, 88>>)]

\* class PureToken
PureToken == [cls |-> "PureToken", table |-> PureTokenTable]

\* PrefixToken with MAXLEN = b"MAXLENGTH".
PrefixToken_OtherMaxlen ==
    [cls |-> "PrefixToken",
     table |-> TableWith(PrefixTokenTable, "MAXLEN",
                         <<77, 65, 88, 76, 69, 78, 71, 84, 72>>)]

\* class PrefixToken
PrefixToken == [cls |-> "PrefixToken", table |-> PrefixTokenTable]

TokenClasses == {PureToken, PrefixToken}
TokenMembers(E) == EnumMembers(E.cls, E.table)
TokenAttr(E, name) == EnumAttr(E.cls, E.table, name)

\* coredis._utils.CaseAndEncodingInsensitiveEnum: the normalized form of a
\* str, of bytes or of a token is its characters upper-cased, with bytes
\* decoded to the same characters; a token equals a value whose normalized
\* form is the token's value.
Upper(s) == [i \in 1..Len(s) |-> IF s[i] \in 97..122 THEN s[i] - 32 ELSE s[i]]
Lower(s) == [i \in 1..Len(s) |-> IF s[i] \in 65..90 THEN s[i] + 32 ELSE s[i]]
Capitalized(s) == [i \in 1..Len(s) |-> IF i = 1 THEN Upper(s)[i] ELSE Lower(s)[i]]
HasText(x) == x.t \in {"str", "bytes", "token"}
Normalized(x) == Upper(x.v)
token_eq(token, other) == HasText(other) /\ Normalized(other) = token.v
\* a == b for operands of which one at least is a token: the __eq__ of the
\* left token, or the reflected __eq__ of the right one.
py_eq(a, b) == IF a.t = "token" THEN token_eq(a, b) ELSE token_eq(b, a)

\* The values a token is compared with: every token, and for a sample of
\* tokens the text and the bytes of its value in several cases, of the
\* value with a character appended and of the value without its last one.
SampleNames == {"MAXLEN", "GET", "NX", "STD_P", "EMPTY_STRING", "LIB_NAME", "IDENTIFIER"}
AllTokens == UNION {TokenMembers(E) : E \in TokenClasses}
Spellings(v) ==
    {v, Lower(v), Capitalized(v), v \o <<88>>, Lower(v) \o <<120>>}
      \cup (IF Len(v) > 0 THEN {SubSeq(v, 1, Len(v) - 1)} ELSE {})
TextOperands ==
    UNION {{PyStr(s), PyBytes(s)} :
             s \in UNION {Spellings(tk.v) : tk \in {x \in AllTokens : x.name \in SampleNames}}}
Operands == AllTokens \cup TextOperands \cup {None, PyInt(1)}

\* ------------------------------------------------------------------ state
\* self: the callback instance.  frames[p]: the activation of call p, its
\* position pc, its arguments (given: the caller passed a version), the
\* method __call__ ran and the outcome.  cmp: the last comparison of a
\* token, the name it was looked up by, the operands and both results
\* (left == right, right == left).
VARIABLES self, frames, cmp
vars == <<self, frames, cmp>>

Calls == 1..NCalls

IdleFrame ==
    [pc |-> "idle", response |-> None, given |-> FALSE, version |-> DefaultVersion,
     unit |-> "", ran |-> "", outcome |-> Ret(None)]

\* The response kept in one slot shared by all calls.
LocalResponse_Shared(fs, p) == fs[1].response

\* The response a running method reads: the parameter of its own call.
LocalResponse(fs, p) == fs[p].response

NoCmp == [attr |-> "", left |-> None, right |-> None, eq |-> FALSE, req |-> FALSE]

Init ==
    /\ self \in Callbacks
    /\ frames = [p \in Calls |-> IdleFrame]
    /\ cmp = NoCmp

\* callback(response[, version][, **kwargs])
Call(p, R, V) ==
    /\ frames[p].pc = "idle"
    /\ \E response \in R, version \in V, given \in BOOLEAN, unit \in Units(self) :
          frames' = [frames EXCEPT ![p] =
                        [pc |-> "__call__", response |-> response, given |-> given,
                         version |-> IF given THEN version ELSE DefaultVersion,
                         unit |-> unit, ran |-> "", outcome |-> Ret(None)]]
    /\ UNCHANGED <<self, cmp>>

\* if version == 3: ... in __call__
Branch(p) ==
    /\ frames[p].pc = "__call__"
    /\ frames' = [frames EXCEPT ![p].pc = Dispatch(frames[p].version)]
    /\ UNCHANGED <<self, cmp>>

\* return self.transform_3(response, **kwargs)
RunTransform3(p) ==
    /\ frames[p].pc = "transform_3"
    /\ frames' = [frames EXCEPT
                    ![p].pc = "return",
                    ![p].ran = "transform_3",
                    ![p].outcome = transform_3(self, LocalResponse(frames, p), frames[p].unit)]
    /\ self' = SelfAfterTransform(self, LocalResponse(frames, p))
    /\ UNCHANGED cmp

\* return self.transform(response, **kwargs)
RunTransform(p) ==
    /\ frames[p].pc = "transform"
    /\ frames' = [frames EXCEPT
                    ![p].pc = "return",
                    ![p].ran = "transform",
                    ![p].outcome = transform(self, LocalResponse(frames, p), frames[p].unit)]
    /\ self' = SelfAfterTransform(self, LocalResponse(frames, p))
    /\ UNCHANGED cmp

\* The caller takes the outcome; the activation is gone.
Return(p) ==
    /\ frames[p].pc = "return"
    /\ frames' = [frames EXCEPT ![p] = IdleFrame]
    /\ UNCHANGED <<self, cmp>>

\* One call after the other.
Next ==
    \/ Call(1, Replies, Versions)
    \/ Branch(1)
    \/ RunTransform3(1)
    \/ RunTransform(1)
    \/ Return(1)
Spec == Init /\ [][Next]_vars

\* Independent calls of the same instance, interleaved at every step.
NextConc ==
    \E p \in Calls :
        \/ Call(p, ConcReplies, ConcVersions)
        \/ Branch(p)
        \/ RunTransform3(p)
        \/ RunTransform(p)
        \/ Return(p)
SpecConc == Init /\ [][NextConc]_vars

\* Building and matching command arguments: a member of an enumeration is
\* looked up by name and compared with a value.  No callback is in use.
InitTokens ==
    /\ self = None
    /\ frames = [p \in Calls |-> IdleFrame]
    /\ cmp = NoCmp

\* E.NAME == other and other == E.NAME
Compare ==
    /\ cmp = NoCmp
    /\ \E E \in TokenClasses : \E name \in EnumNames(E.table), other \in Operands :
          LET token == TokenAttr(E, name) IN
          cmp' = [attr |-> name, left |-> token, right |-> other,
                  eq |-> py_eq(token, other), req |-> py_eq(other, token)]
    /\ UNCHANGED <<self, frames>>

\* The caller took the result of the comparison.
Compared ==
    /\ cmp # NoCmp
    /\ cmp' = NoCmp
    /\ UNCHANGED <<self, frames>>

NextTokens == Compare \/ Compared
SpecTokens == InitTokens /\ [][NextTokens]_vars

\* ------------------------------------------------------------ properties
Done(p) == frames[p].pc = "return"
StatusPlain(slf) == slf.cls = "SimpleStringCallback" /\ slf.raise_on_error = "None"
StatusRaising(slf) == slf.cls = "SimpleStringCallback" /\ slf.raise_on_error # "None"
IsOK(response) == nativestr(response) = PyStr(OK)

\* C1: __call__ runs transform_3 exactly when version == 3 and transform for
\* every other version, the omitted one included; no class defines a
\* transform_3 of its own, so the outcome for version 3 is the outcome of
\* transform on the same reply and parameters.
C1_DispatchByVersion ==
    \A p \in Calls : Done(p) =>
        /\ (frames[p].ran = "transform_3") <=> (frames[p].version = 3)
        /\ (frames[p].ran = "transform") <=> (frames[p].version # 3)
        /\ ~frames[p].given => frames[p].ran = "transform"
        /\ frames[p].outcome = transform(self, frames[p].response, frames[p].unit)
C1_Witness ==
    /\ Done(1) /\ frames[1].given /\ frames[1].version = 3
    /\ frames[1].ran = "transform_3"
    /\ self.cls = "DateTimeCallback" /\ frames[1].unit = "milliseconds"
    /\ frames[1].response = PyInt(5)

\* C2: a Status callback without raise_on_error returns a boolean for every
\* reply: True iff the text of the reply is "OK", the boolean False otherwise.
C2_StatusReturnsBoolean ==
    \A p \in Calls : (Done(p) /\ StatusPlain(self)) =>
        frames[p].outcome = Ret(PyBool(IsOK(frames[p].response)))

\* C3: a Status callback with raise_on_error = E raises E(reply), the raw
\* reply, for every reply that is not "OK" (None and empty ones too), never
\* returns False, and returns True for "OK".
C3_StatusRaises ==
    \A p \in Calls : (Done(p) /\ StatusRaising(self)) =>
        /\ IsOK(frames[p].response) => frames[p].outcome = Ret(True)
        /\ ~IsOK(frames[p].response) =>
              frames[p].outcome = Raise(self.raise_on_error, frames[p].response)
        /\ frames[p].outcome # Ret(False)
C3_Witness ==
    /\ Done(1) /\ self.raise_on_error = "ResponseError"
    /\ frames[1].response = PyBytes(<<>>)
    /\ frames[1].outcome = Raise("ResponseError", PyBytes(<<>>))

\* C4: no step of an invocation, returning or raising, changes an attribute
\* of the callback: raise_on_error and transform_function stay what the
\* constructor set.
C4_ConfigurationKept == [][self' = self]_vars
C4_Witness ==
    /\ Done(1) /\ self.raise_on_error = "AuthenticationError"
    /\ frames[1].outcome.k = "raise"

\* C5: with calls of one instance interleaved at every step, each call ends
\* with the outcome it has when run alone on its own reply, version and
\* parameters.
C5_InterleavingIndependent ==
    \A p \in Calls : Done(p) =>
        frames[p].outcome =
            call(self, frames[p].response, frames[p].version, frames[p].unit)
C5_Witness ==
    /\ Done(2) /\ frames[1].pc \in {"transform", "transform_3"}
    /\ frames[1].response # frames[2].response
    /\ call(self, frames[1].response, 2, "") # call(self, frames[2].response, 2, "")

\* C6: a Dict callback without transform_function gives the mapping
\* {k1: v1, ...} both for the flattened array [k1, v1, ...] under version 2
\* and for the native map under version 3.
C6_DictVersionsAgree ==
    \A p \in Calls : (Done(p) /\ self = Callback("DictCallback", "None", "None")) =>
        \A m \in Mappings :
            /\ (frames[p].version = 2
                  /\ \E s \in Orders(PairsOf(m)) : frames[p].response = PyList(Flatten(s)))
                => frames[p].outcome = Ret(PyDict(PairsOf(m)))
            /\ (frames[p].version = 3 /\ frames[p].response = PyDict(PairsOf(m)))
                => frames[p].outcome = Ret(PyDict(PairsOf(m)))

\* C7: an Optional-family callback returns None, and does not raise, for a
\* reply that is None, empty bytes or text, or an empty array; the Optional
\* integer callback returns 5 for the integer 5.
OptionalFamily ==
    {"OptionalFloatCallback", "OptionalIntCallback", "OptionalSetCallback",
     "OptionalTupleCallback"}
AbsentReplies == {None, PyBytes(<<>>), PyStr(<<>>), PyList(<<>>)}
C7_OptionalAbsent ==
    \A p \in Calls : (Done(p) /\ self.cls \in OptionalFamily) =>
        /\ frames[p].response \in AbsentReplies => frames[p].outcome = Ret(None)
        /\ (self.cls = "OptionalIntCallback" /\ frames[p].response = PyInt(5))
              => frames[p].outcome = Ret(PyInt(5))

\* The replies whose shape a class cannot convert to its result type.
NotNumeric(r) ==
    \/ r.t \in {"NoneType", "list", "tuple", "set", "dict", "error"}
    \/ r.t \in {"bytes", "str"} /\ ~IsFloatLiteral(r.v)
NotCollection(r) == r.t \in {"int", "bool", "float", "error"}
NotPairs(r) ==
    \/ r.t \in {"NoneType", "int", "bool", "float", "error"}
    \/ r.t = "list" /\ \E i \in 1..Len(r.v) :
          ~(r.v[i].t \in {"list", "tuple"} /\ Len(r.v[i].v) = 2)
Unconvertible(slf, r) ==
    CASE slf.cls = "FloatCallback" -> NotNumeric(r)
      [] slf.cls \in {"SetCallback", "TupleCallback", "ListCallback", "BoolsCallback"} ->
            NotCollection(r)
      [] slf.cls = "DictCallback" -> slf.transform_function = "None" /\ NotPairs(r)
      [] slf.cls = "OptionalFloatCallback" -> Truthy(r) /\ NotNumeric(r)
      [] slf.cls \in {"OptionalSetCallback", "OptionalTupleCallback"} ->
            Truthy(r) /\ NotCollection(r)
      [] OTHER -> FALSE

\* C8: a reply whose shape cannot be converted to the result type of the
\* callback ends the call in an error: no default or empty value and no
\* value of another type is returned.
C8_CoercionFailureRaises ==
    \A p \in Calls : (Done(p) /\ Unconvertible(self, frames[p].response)) =>
        frames[p].outcome.k = "raise"

\* C9: an Error reply handed to a callback without handling for errors ends
\* the call in a failure carrying that Error; it is never turned into an
\* ordinary result.
NoErrorHandling(slf) ==
    \/ slf.cls \in {"BoolCallback", "FloatCallback", "ListCallback", "TupleCallback",
                    "SetCallback", "DictCallback", "BoolsCallback",
                    "OptionalPrimitiveCallback"} \cup OptionalFamily
    \/ StatusPlain(slf)
C9_ErrorPropagates ==
    \A p \in Calls : (Done(p) /\ NoErrorHandling(self) /\ frames[p].response.t = "error") =>
        /\ frames[p].outcome.k = "raise"
        /\ frames[p].outcome.val = frames[p].response

\* C10: for None, an empty array, an array of set members (version 2) or a
\* native set (version 3) the Set callback returns a set, never None, of
\* exactly the distinct elements of the reply: the empty set for None and
\* [], and equal sets for arrays that differ in order or multiplicity only.
Members(r) == IF r.t = "set" THEN r.v ELSE {r.v[i] : i \in 1..Len(r.v)}
SetShaped == {None} \cup Arrays \cup NativeSets
C10_SetOfDistinctElements ==
    \A p \in Calls :
        (Done(p) /\ self.cls = "SetCallback" /\ frames[p].response \in SetShaped) =>
            /\ frames[p].outcome = Ret(PySet(Members(frames[p].response)))
            /\ \A r \in Arrays : Members(r) = Members(frames[p].response) =>
                  call(self, r, frames[p].version, "") = frames[p].outcome
C10_Witness ==
    /\ Done(1) /\ self.cls = "SetCallback"
    /\ frames[1].response = PyList(<<PyBytes(<<98, 99>>), PyBytes(<<97>>), PyBytes(<<98, 99>>)>>)
    /\ frames[1].outcome = Ret(PySet({PyBytes(<<97>>), PyBytes(<<98, 99>>)}))

\* C11: a token equals a str, bytes or another token exactly when the
\* normalized form of that value (upper-cased, bytes decoded) is the token's
\* value: MAXLEN equals "maxlen", "MaxLen" and b"MAXLEN" and does not equal
\* "MAXLENX"; the relation is symmetric and the same for the str and the
\* bytes of the same characters.
MAXLEN == <<77, 65, 88, 76, 69, 78>>
Compared2 == cmp # NoCmp
C11_TokenEquality ==
    Compared2 =>
        /\ cmp.eq <=> (cmp.right.t \in {"str", "bytes", "token"}
                         /\ Upper(cmp.right.v) = cmp.left.v)
        /\ cmp.req = cmp.eq
        /\ cmp.right.t \in {"str", "bytes"} =>
              py_eq(cmp.left, PyStr(cmp.right.v)) = py_eq(cmp.left, PyBytes(cmp.right.v))
        /\ cmp.attr = "MAXLEN" =>
              /\ cmp.left.v = MAXLEN
              /\ cmp.right \in {PyStr(Lower(MAXLEN)), PyStr(Capitalized(MAXLEN)),
                                PyBytes(MAXLEN)} => cmp.eq
              /\ cmp.right \in {PyStr(MAXLEN \o <<88>>), PyBytes(MAXLEN \o <<88>>),
                                PyStr(SubSeq(MAXLEN, 1, 5))} => ~cmp.eq
C11_Witness ==
    /\ cmp.left = Token("PureToken", "MAXLEN", MAXLEN)
    /\ cmp.right = PyStr(Capitalized(MAXLEN))
    /\ cmp.eq /\ cmp.req

\* C12 as claimed: the two enumerations are disjoint: no value is a member
\* of both, and no member of one equals a member of the other.
CrossCompared ==
    /\ Compared2 /\ cmp.right.t = "token"
    /\ cmp.left.cls # cmp.right.cls
C12_TokenSetsDisjoint ==
    CrossCompared => (cmp.left.v # cmp.right.v /\ ~cmp.eq)

\* C12: the two enumerations are separate classes but not disjoint by
\* value: exactly the values BLOCK, CAPACITY, COMPRESSION, COUNT, ERROR,
\* EXPANSION, GET, MAXLEN, STOREDIST, TIMEOUT and WEIGHTS are members of
\* both, under the same name, and a member of one equals a member of the
\* other exactly for these.
SharedNames ==
    {"BLOCK", "CAPACITY", "COMPRESSION", "COUNT", "ERROR", "EXPANSION", "GET",
     "MAXLEN", "STOREDIST", "TIMEOUT", "WEIGHTS"}
C12_SharedValues ==
    CrossCompared =>
        /\ cmp.eq <=> (cmp.left.v = cmp.right.v)
        /\ (cmp.left.v = cmp.right.v)
              <=> (cmp.left.name = cmp.right.name /\ cmp.left.name \in SharedNames)
C12_Witness ==
    /\ cmp.left = Token("PureToken", "MAXLEN", MAXLEN)
    /\ cmp.right = Token("PrefixToken", "MAXLEN", MAXLEN)
    /\ cmp.eq

\* C13: within PureToken, and within PrefixToken, no two distinct members
\* have values that are the same after upper-casing, and every name is the
\* name of its own member, none an alias of another.
C13_MembersUnique ==
    Compared2 =>
        /\ cmp.left.name = cmp.attr
        /\ (cmp.right.t = "token" /\ cmp.right.cls = cmp.left.cls
              /\ cmp.right.name # cmp.left.name)
              => Upper(cmp.right.v) # Upper(cmp.left.v)
C13_Witness ==
    /\ cmp.attr = "XX" /\ cmp.left.cls = "PureToken"
    /\ cmp.left.name = "XX"
    /\ cmp.right = Token("PureToken", "NX", <<78, 88>>)
    /\ ~cmp.eq

\* C14: for an integer epoch second s the DateTime callback gives the same
\* timestamp for the reply s with unit "seconds" and for 1000 * s with unit
\* "milliseconds"; the reply is divided by 1000 exactly when the unit is
\* "milliseconds", and used as it is for any other unit and for none.
C14_DateTimeUnits ==
    \A p \in Calls :
        (Done(p) /\ self.cls = "DateTimeCallback" /\ frames[p].response.t = "int") =>
            LET n == frames[p].response.v[1] IN
            /\ frames[p].outcome =
                  Ret(PyDateTime(IF frames[p].unit = "milliseconds"
                                 THEN 1000 * n ELSE 1000000 * n))
            /\ \A sec \in EpochSeconds :
                  (frames[p].unit = "milliseconds" /\ n = 1000 * sec) =>
                      frames[p].outcome =
                          call(self, PyInt(sec), frames[p].version, "seconds")
C14_Witness ==
    /\ Done(1) /\ self.cls = "DateTimeCallback"
    /\ frames[1].unit = "milliseconds" /\ frames[1].response = PyInt(1000)
    /\ frames[1].outcome = Ret(PyDateTime(1000000))

\* C15: the Boolean callback returns a boolean for every reply and never
\* raises: a boolean is returned as it is, None, 0 and empty bytes, text or
\* array give False, every other integer and non-empty bytes, text or array
\* give True; applied to its own result it returns that result.
Empty(r) ==
    \/ r.t = "NoneType"
    \/ r.t = "int" /\ r.v[1] = 0
    \/ r.t \in {"bytes", "str", "list"} /\ Len(r.v) = 0
NonEmpty(r) ==
    \/ r.t = "int" /\ r.v[1] # 0
    \/ r.t \in {"bytes", "str", "list"} /\ Len(r.v) > 0
C15_BooleanCoercion ==
    \A p \in Calls : (Done(p) /\ self.cls = "BoolCallback") =>
        LET r == frames[p].response
            o == frames[p].outcome
        IN /\ o.k = "ret" /\ o.val \in {True, False}
           /\ r.t = "bool" => o.val = r
           /\ Empty(r) => o.val = False
           /\ NonEmpty(r) => o.val = True
           /\ call(self, o.val, frames[p].version, "") = o
C15_Witness ==
    /\ Done(1) /\ self.cls = "BoolCallback"
    /\ frames[1].response = PyBytes(<<>>)
    /\ frames[1].outcome = Ret(False)

\* C16: the StatusOrInteger callback returns an integer or boolean reply as
\* it is (0 and False too); for any other reply its outcome is the outcome of
\* a Status callback without raise_on_error on that reply, so it never raises
\* for a status that is not "OK".
C16_StatusOrInteger ==
    \A p \in Calls : (Done(p) /\ self.cls = "SimpleStringOrIntCallback") =>
        LET r == frames[p].response
            o == frames[p].outcome
        IN /\ r.t \in {"int", "bool"} => o = Ret(r)
           /\ r.t \notin {"int", "bool"} =>
                 o = call(Callback("SimpleStringCallback", "None", "None"), r,
                          DefaultVersion, "")
           /\ o.k = "ret"
C16_Witness ==
    /\ Done(1) /\ self.cls = "SimpleStringOrIntCallback"
    /\ frames[1].response = False
    /\ frames[1].outcome = Ret(False)

\* C17: for a present reply (not None, not empty, not zero) an Optional
\* callback has the outcome of its plain counterpart: OptionalFloat of
\* Float, OptionalSet of Set, OptionalTuple of Tuple, the value or the
\* coercion error; OptionalInteger returns an integer reply as it is and
\* otherwise int(reply).
Present(r) ==
    /\ r.t # "NoneType"
    /\ r.t \in {"int", "bool", "float"} => r.v[1] # 0
    /\ r.t \in {"bytes", "str", "list", "tuple"} => Len(r.v) # 0
    /\ r.t \in {"set", "dict"} => r.v # {}
Counterpart(cls) ==
    CASE cls = "OptionalFloatCallback" -> "FloatCallback"
      [] cls = "OptionalSetCallback" -> "SetCallback"
      [] cls = "OptionalTupleCallback" -> "TupleCallback"
C17_OptionalAsCounterpart ==
    \A p \in Calls :
        (Done(p) /\ self.cls \in OptionalFamily /\ Present(frames[p].response)) =>
            LET r == frames[p].response
                o == frames[p].outcome
            IN IF self.cls = "OptionalIntCallback"
               THEN o = (IF r.t \in {"int", "bool"} THEN Ret(r) ELSE int(r))
               ELSE o = call(Callback(Counterpart(self.cls), "None", "None"), r,
                             frames[p].version, "")
C17_Witness ==
    /\ Done(1) /\ self.cls = "OptionalFloatCallback"
    /\ frames[1].response = PyBytes(<<49, 46, 53>>)
    /\ frames[1].outcome = Ret(PyFloat(1500))

=============================================================================
